---- MODULE Spec2Model ----
(***************************************************************************)
(* A model of casstcl's statement construction and paginated select        *)
(* (generic/casstcl_cassandra.c).                                          *)
(*                                                                         *)
(*   SelectSpec  casstcl_select: one action per step of the do/while loop  *)
(*               over pages and of the while loop over the rows of a page. *)
(*   UpsertSpec  casstcl_make_upsert_statement_from_objv and               *)
(*               casstcl_make_upsert_statement: one action per option      *)
(*               parsing pass and per loop iteration.                      *)
(*   StatementSpec  casstcl_make_statement_from_objv: the loop over the    *)
(*               options, the checks of the modes and the two branches     *)
(*               that call a binding routine.                              *)
(*   SchemaSpec  casstcl_list_keyspaces, casstcl_list_tables and           *)
(*               casstcl_list_columns: one action per entry into a         *)
(*               function, per pass of its loop and per return.            *)
(*                                                                         *)
(* The cpp-driver and the Tcl interpreter are the environment: the pages   *)
(* and rows a query yields, the outcome of each execution, the code the    *)
(* row body ends with and the outcome of each conversion are chosen        *)
(* nondeterministically.                                                   *)
(***************************************************************************)
EXTENDS Integers, Sequences, FiniteSets, TLC

\* ------------------------------------------------------------------ bounds
\* the largest number of pages of a result
MaxPages == 3
\* the largest number of rows of a result, all pages together
MaxRows == 3
\* executions after which the driver is no longer asked (never reached by
\* the code as written: a result of P pages is executed at most P times)
MaxExecs == 4
\* the largest number of name/value pairs of an upsert's list
MaxPairs == 2

\* ----------------------------------------------------------- select: data
\* the columns of the result, in result order
Columns == <<"a", "b">>
ColumnNames == {Columns[i] : i \in 1..Len(Columns)}
\* column values as the driver holds them
Values == {"v1", "v2"}
\* a cell of a row: SQL null, a value that converts, a value whose
\* conversion fails, a value that converts to no object, a value whose
\* store into the array fails: a write trace on the array rejects it, when
\* Tcl_SetVar2Ex has stored it already
Cells == {"null", "conv_error", "no_obj", "store_error"} \cup Values
\* an array element that does not exist
NoElem == "none"
Rows == [ColumnNames -> Cells]
NoRow == [c \in ColumnNames |-> "null"]
EmptyArray == [c \in ColumnNames |-> NoElem]
\* the arrays a caller can hold when casstcl_select is called
Arrays == [ColumnNames -> Values \cup {NoElem}]
\* the codes a Tcl script can end with (5 stands for any custom code)
TclCodes == {"TCL_OK", "TCL_ERROR", "TCL_RETURN", "TCL_BREAK", "TCL_CONTINUE", "TCL_CUSTOM"}
\* the codes other than normal completion and continue
OtherCodes == TclCodes \ {"TCL_OK", "TCL_CONTINUE"}

VARIABLES
    pc,             \* position in casstcl_select
    pages,          \* the result: pages[k] is the number of rows of page k
    statement,      \* the CassStatement of casstcl_select
    tclReturn,      \* casstcl_select's tclReturn
    has_more_pages, \* casstcl_select's has_more_pages
    result,         \* the page the current CassResult holds, 0 when NULL
    iterator,       \* rows of the current page the iterator has returned
    columnCount,    \* casstcl_select's columnCount
    row,            \* the cells of the current row
    rowArray,       \* the elements of the Tcl array arrayName
    arrayVar,       \* whether the Tcl variable arrayName exists
    interpResult,   \* the interpreter's result where casstcl_select sets it
    errorLine,      \* the interpreter's error line (Tcl_GetErrorLine)
    errorInfo,      \* what casstcl_select has added to the errorInfo trace
    liveFutures,    \* the executions whose CassFuture is not freed
    liveResults,    \* the executions whose CassResult is not freed
    liveIterators,  \* the executions whose CassIterator is not freed
    delivered,      \* history: the rows the iterators have yielded so far
    rowFailed,      \* history: a conversion or a store has failed
    evalLog,        \* history: the invocations of the code body
    lastCode,       \* history: the code the body ended with last
    codeCount,      \* history: how often the body ended with each other code
    execLog         \* history: the executions of the statement

selectVars == <<pc, pages, statement, tclReturn, has_more_pages, result,
                iterator, columnCount, row, rowArray, arrayVar, interpResult,
                errorLine, errorInfo, liveFutures, liveResults, liveIterators,
                delivered, rowFailed, evalLog, lastCode, codeCount, execLog>>

\* ----------------------------------------------------------- upsert: data
\* the columns of the table casstcl_typename_obj_to_cass_value_types finds,
\* with their types
TableColumns == [id |-> "uuid", extra |-> "map"]
\* the column names a list can hold: "nick" is not a column of the table
ListNames == {"id", "extra", "nick"}
\* the values a list can hold
ListValues == {"x", "y"}
\* a char * that is NULL
NULL == "NULL"
\* the table of the upsert
TableName == "ks.users"
\* no CassStatement
NoStatement == [live |-> FALSE]
\* the value of the caller's statement pointer before the call
CallerStatement == [live |-> TRUE, query |-> <<"caller's">>, nparams |-> 0,
                    binds |-> <<>>]

VARIABLES
    upc,              \* position in casstcl_make_upsert_statement(_from_objv)
    objc,             \* the number of arguments
    optv,             \* objv[0 .. objc-3]: the arguments before the table name
    listObj,          \* objv[objc-1]: the list of names and values
    listParses,       \* whether listObj is a well-formed Tcl list
    mapUnknown,       \* the map column's name, or NULL
    dropUnknown,
    ifNotExists,
    listObjv,         \* the elements of the list
    ds,               \* the pieces appended to the Tcl_DString
    nFields,
    didOne,
    nUnknownToMap,
    typeInfo,         \* typeInfo[i/2].cassValueType of each pair
    idx,              \* the i of the loops over listObjv, from 0
    upsertReturn,     \* casstcl_make_upsert_statement's tclReturn
    upsertStatement,  \* casstcl_make_upsert_statement's statement
    bindField,
    collection,       \* the elements appended to the map collection
    statementPtr,     \* the caller's *statementPtr
    upsertResult,     \* the interpreter's result where the upsert sets it
    resolveCalls,     \* history: calls of the type resolver
    faults            \* history: the calls of collaborators that failed

upsertVars == <<upc, objc, optv, listObj, listParses, mapUnknown, dropUnknown,
                ifNotExists, listObjv, ds, nFields, didOne, nUnknownToMap,
                typeInfo, idx, upsertReturn, upsertStatement, bindField,
                collection, statementPtr, upsertResult, resolveCalls, faults>>

\* -------------------------------------------------------- statement: data
\* the options of casstcl_make_statement_from_objv
OptionNames == {"-array", "-table", "-prepared", "-consistency"}
\* the words an argument can be: an option, another word that begins with
\* a dash, a word that is a list of one element and names a consistency
\* level, the empty string, and a word that is no well-formed list
Words == OptionNames \cup {"-bogus", "quorum", "", "{"}
\* the words whose first character is a dash
DashWords == {"-array", "-table", "-prepared", "-consistency", "-bogus"}
\* the names casstcl_obj_to_cass_consistency knows
ConsistencyLevels == {"quorum"}
\* the value of the local consistency before anything is stored in it
Uninitialized == "uninitialized"
\* what a read of the uninitialized local can yield
Indeterminate == ConsistencyLevels \cup {"garbage"}
\* no binding routine was called
NoCall == [routine |-> "none"]
\* the words of objv in front of the arguments: the command and what
\* follows it up to the arguments
CommandWords == <<"sess", "exec", "sub">>
\* the values of argOffset
ArgOffsets == {2, 3}

VARIABLES
    spc,              \* position in casstcl_make_statement_from_objv
    argOffset,        \* the number of words of objv in front of the arguments
    newObjv,          \* the arguments from argOffset on
    stmtArg,              \* the index of the next argument, from 0
    arrayStyle,
    arrayName,        \* NULL or the word after -array
    tableName,        \* NULL or the word after -table
    preparedName,     \* NULL or the word after -prepared
    consistencyObj,   \* NULL or the word after -consistency
    consistency,      \* the level parsed from a -consistency argument
    stmtReturn,       \* the code casstcl_make_statement_from_objv returns
    stmtResult,       \* the interpreter's result where the function sets it
    bindCall          \* the call of a binding routine

statementVars == <<spc, argOffset, newObjv, stmtArg, arrayStyle, arrayName,
                   tableName,
                   preparedName, consistencyObj, consistency, stmtReturn,
                   stmtResult, bindCall>>

\* ----------------------------------------------------------- schema: data
\* the keyspaces of the schema the driver holds, in iteration order
KeyspaceNames == <<"ks", "system">>
\* the tables of each keyspace, in iteration order, and the column
\* metadata entries of each table: the value type of the column_name field,
\* the name and the validator
SchemaMeta ==
    [ks |-> <<[name |-> "users",
               columns |-> <<[type |-> "varchar", name |-> "id",
                              validator |-> "UUIDType"],
                             [type |-> "varchar", name |-> "name",
                              validator |-> "UTF8Type"]>>],
              [name |-> "events",
               columns |-> <<[type |-> "varchar", name |-> "at",
                              validator |-> "TimestampType"]>>]>>,
     system |-> <<[name |-> "IndexInfo",
                   columns |-> <<[type |-> "unknown", name |-> "",
                                  validator |-> "BytesType"],
                                 [type |-> "varchar", name |-> "table_name",
                                  validator |-> "UTF8Type"]>>]>>]
\* the keyspace and table names a caller can ask for
KeyspaceArgs == {"ks", "system", "nokeyspace"}
TableArgs == {"users", "events", "IndexInfo", "notable"}
\* ::casstcl::validator_to_type and its cache: the type of a validator
ValidatorType == [UUIDType |-> "uuid", UTF8Type |-> "text", BytesType |-> "blob",
                  TimestampType |-> "timestamp"]

VARIABLES
    lpc,             \* position in casstcl_list_keyspaces, _tables, _columns
    listFunc,        \* which of the three functions runs
    keyspaceArg,     \* the argument keyspace
    tableArg,        \* the argument table
    includeTypes,
    schema,          \* the CassSchema: how often obtained and freed
    schemaIterator,  \* the CassIterator: how often created and freed
    entries,         \* the metadata entries the iterator runs over
    itPos,           \* the entries the iterator has returned
    listOut,         \* the elements of the function's listObj
    objPtr,          \* the caller's *objPtr
    listReturn,      \* the function's tclReturn
    listResult       \* the interpreter's result where the function sets it

schemaVars == <<lpc, listFunc, keyspaceArg, tableArg, includeTypes, schema,
                schemaIterator, entries, itPos, listOut, objPtr, listReturn,
                listResult>>

vars == <<selectVars, upsertVars, statementVars, schemaVars>>

\* the upsert is not running
UpsertIdle ==
    /\ upc = "idle"
    /\ objc = 2
    /\ optv = <<>>
    /\ listObj = <<>>
    /\ listParses = TRUE
    /\ mapUnknown = NULL
    /\ dropUnknown = FALSE
    /\ ifNotExists = FALSE
    /\ listObjv = <<>>
    /\ ds = <<>>
    /\ nFields = 0
    /\ didOne = FALSE
    /\ nUnknownToMap = 0
    /\ typeInfo = <<>>
    /\ idx = 0
    /\ upsertReturn = "TCL_OK"
    /\ upsertStatement = NoStatement
    /\ bindField = 0
    /\ collection = <<>>
    /\ statementPtr = CallerStatement
    /\ upsertResult = <<>>
    /\ resolveCalls = 0
    /\ faults = {}

\* casstcl_select is not running
SelectIdle ==
    /\ pc = "idle"
    /\ pages = <<0>>
    /\ statement = [live |-> FALSE, frees |-> 0, pagingState |-> 0]
    /\ tclReturn = "TCL_OK"
    /\ has_more_pages = FALSE
    /\ result = 0
    /\ iterator = 0
    /\ columnCount = -1
    /\ row = NoRow
    /\ rowArray = EmptyArray
    /\ arrayVar = FALSE
    /\ interpResult = <<>>
    /\ errorLine = 0
    /\ errorInfo = <<>>
    /\ liveFutures = {}
    /\ liveResults = {}
    /\ liveIterators = {}
    /\ delivered = 0
    /\ rowFailed = FALSE
    /\ evalLog = <<>>
    /\ lastCode = "none"
    /\ codeCount = [c \in OtherCodes |-> 0]
    /\ execLog = <<>>

\* casstcl_make_statement_from_objv is not running
StatementIdle ==
    /\ spc = "idle"
    /\ argOffset = 0
    /\ newObjv = <<>>
    /\ stmtArg = 0
    /\ arrayStyle = FALSE
    /\ arrayName = NULL
    /\ tableName = NULL
    /\ preparedName = NULL
    /\ consistencyObj = NULL
    /\ consistency = Uninitialized
    /\ stmtReturn = "TCL_OK"
    /\ stmtResult = <<>>
    /\ bindCall = NoCall

\* none of the functions that list the schema is running
SchemaIdle ==
    /\ lpc = "idle"
    /\ listFunc = "none"
    /\ keyspaceArg = NULL
    /\ tableArg = NULL
    /\ includeTypes = FALSE
    /\ schema = [gets |-> 0, frees |-> 0]
    /\ schemaIterator = [news |-> 0, frees |-> 0]
    /\ entries = <<>>
    /\ itPos = 0
    /\ listOut = <<>>
    /\ objPtr = NULL
    /\ listReturn = "TCL_OK"
    /\ listResult = <<>>

\* ---------------------------------------------------------- select: driver
\* the rows of the pages 1..k of a layout
RECURSIVE RowsIn(_, _)
RowsIn(p, k) == IF k = 0 THEN 0 ELSE RowsIn(p, k - 1) + p[k]

\* every result of at most MaxPages pages and at most MaxRows rows, on
\* whatever pages they are
PageLayouts ==
    {p \in UNION {[1..n -> 0..MaxRows] : n \in 1..MaxPages} :
        RowsIn(p, Len(p)) <= MaxRows}

\* cass_result_has_more_pages: page k of the result is not the last one
cass_result_has_more_pages(k) == k < Len(pages)

\* the paging state a result carries: the page it holds
PagingToken(k) == k

\* cass_session_execute: the page the driver serves for a paging state
ServedPage(pagingState) == pagingState + 1

\* ----------------------------------------------------------- select: steps
\* casstcl_future_error_to_tcl: the Tcl code of a failed future
casstcl_future_error_to_tcl == "TCL_ERROR"

SelectInit ==
    /\ pc = "idle"
    /\ pages \in PageLayouts
    /\ statement = [live |-> FALSE, frees |-> 0, pagingState |-> 0]
    /\ tclReturn = "TCL_OK"
    /\ has_more_pages = FALSE
    /\ result = 0
    /\ iterator = 0
    /\ columnCount = -1
    /\ row = NoRow
    /\ \E arr \in Arrays :
          /\ rowArray = arr
          /\ arrayVar \in (IF arr = EmptyArray THEN BOOLEAN ELSE {TRUE})
    /\ interpResult = <<>>
    /\ errorLine = 0
    /\ errorInfo = <<>>
    /\ liveFutures = {}
    /\ liveResults = {}
    /\ liveIterators = {}
    /\ delivered = 0
    /\ rowFailed = FALSE
    /\ evalLog = <<>>
    /\ lastCode = "none"
    /\ codeCount = [c \in OtherCodes |-> 0]
    /\ execLog = <<>>
    /\ UpsertIdle
    /\ StatementIdle
    /\ SchemaIdle

\* casstcl_select up to the do loop: the statement is created, the
\* consistency level is applied (a failure returns at once) and the
\* paging size is set
SelectEnter ==
    /\ pc = "idle"
    /\ UNCHANGED <<upsertVars, statementVars, schemaVars>>
    /\ \E consistencyOk \in BOOLEAN :
          IF consistencyOk
          THEN /\ pc' = "execute"
               /\ tclReturn' = "TCL_OK"
          ELSE /\ pc' = "done"
               /\ tclReturn' = "TCL_ERROR"
    /\ statement' = [live |-> TRUE, frees |-> 0, pagingState |-> 0]
    /\ UNCHANGED <<pages, has_more_pages, result, iterator, columnCount, row,
                   rowArray, arrayVar, interpResult, errorLine, errorInfo,
                   liveFutures, liveResults, liveIterators, delivered,
                   rowFailed, evalLog, lastCode, codeCount, execLog>>

\* the rows of page k of the result
RowsOfPage(k) == IF k \in DOMAIN pages THEN pages[k] ELSE 0

\* ExecuteReturn with the failed future's code dropped
ExecuteReturn_lost(ret, outcome) ==
    CASE outcome = "noresult" -> "TCL_ERROR"
      [] OTHER -> ret

\* ExecuteReturn with the missing result not taken for an error
ExecuteReturn_silent(ret, outcome) ==
    CASE outcome = "error" -> casstcl_future_error_to_tcl
      [] OTHER -> ret

\* tclReturn after the execution of a page
ExecuteReturn(ret, outcome) ==
    CASE outcome = "error" -> casstcl_future_error_to_tcl
      [] outcome = "noresult" -> "TCL_ERROR"
      [] OTHER -> ret

\* the head of the do loop: the statement is executed; a failed future
\* is freed and leaves the loop, a future without result leaves the loop
\* with a message, otherwise the iterator of the page is created, the
\* future is freed and columnCount is set on the first page.  The
\* execution is known by its number e.
ExecutePage ==
    /\ pc = "execute"
    /\ UNCHANGED <<upsertVars, statementVars, schemaVars>>
    /\ Len(execLog) < MaxExecs
    /\ \E outcome \in {"ok", "error", "noresult"} :
          LET e == Len(execLog) + 1
          IN /\ execLog' = Append(execLog,
                    [state |-> statement.pagingState,
                     page |-> ServedPage(statement.pagingState),
                     outcome |-> outcome])
             /\ tclReturn' = ExecuteReturn(tclReturn, outcome)
             /\ CASE outcome = "error" ->
                       /\ pc' = "cleanup"
                       /\ UNCHANGED <<result, iterator, columnCount,
                                      interpResult, liveFutures, liveResults,
                                      liveIterators>>
                  [] outcome = "noresult" ->
                       /\ result' = 0
                       /\ interpResult' = <<"future has no result">>
                       /\ liveFutures' = liveFutures \cup {e}
                       /\ pc' = "cleanup"
                       /\ UNCHANGED <<iterator, columnCount, liveResults,
                                      liveIterators>>
                  [] outcome = "ok" ->
                       /\ result' = ServedPage(statement.pagingState)
                       /\ iterator' = 0
                       /\ liveResults' = liveResults \cup {e}
                       /\ liveIterators' = liveIterators \cup {e}
                       /\ columnCount' = IF columnCount = -1 THEN Len(Columns)
                                         ELSE columnCount
                       /\ pc' = "next_row"
                       /\ UNCHANGED <<interpResult, liveFutures>>
    /\ UNCHANGED <<pages, statement, has_more_pages, row, rowArray, arrayVar,
                   errorLine, errorInfo, delivered, rowFailed, evalLog,
                   lastCode, codeCount>>

\* one pass of the for loop over the columns: st is the array, whether the
\* variable exists, tclReturn and whether the loop was left by break; a
\* conversion that fails leaves the element as it was, a store that fails
\* leaves the rejected value in it
ProcessColumn(st, c, cell) ==
    CASE cell = "null" ->
            [st EXCEPT !.arr = [st.arr EXCEPT ![c] = NoElem]]
      [] cell = "conv_error" ->
            [st EXCEPT !.ret = "TCL_ERROR", !.brk = TRUE]
      [] cell = "no_obj" ->
            [st EXCEPT !.arr = [st.arr EXCEPT ![c] = NoElem]]
      [] cell = "store_error" ->
            [st EXCEPT !.arr = [st.arr EXCEPT ![c] = cell], !.var = TRUE,
                       !.ret = "TCL_ERROR", !.brk = TRUE]
      [] OTHER ->
            [st EXCEPT !.arr = [st.arr EXCEPT ![c] = cell], !.var = TRUE]

\* the for loop over the columns i..columnCount of a row
RECURSIVE ProcessColumns(_, _, _, _)
ProcessColumns(st, i, n, r) ==
    IF i > n \/ st.brk THEN st
    ELSE ProcessColumns(ProcessColumn(st, Columns[i], r[Columns[i]]), i + 1, n, r)

\* whether the conversion or the store of a cell of the row fails
RowFails(r) == \E c \in ColumnNames : r[c] \in {"conv_error", "store_error"}

\* the while loop's test and the for loop: the iterator yields the next
\* row of the page, whose columns go into the array, or the page is
\* exhausted
FetchRow ==
    /\ pc = "next_row"
    /\ UNCHANGED <<upsertVars, statementVars, schemaVars>>
    /\ IF iterator < RowsOfPage(result)
       THEN \E r \in Rows :
              LET st == ProcessColumns(
                          [arr |-> rowArray, var |-> arrayVar,
                           ret |-> tclReturn, brk |-> FALSE],
                          1, columnCount, r)
              IN /\ iterator' = iterator + 1
                 /\ delivered' = delivered + 1
                 /\ rowFailed' = (rowFailed \/ RowFails(r))
                 /\ row' = r
                 /\ rowArray' = st.arr
                 /\ arrayVar' = st.var
                 /\ tclReturn' = st.ret
                 /\ pc' = "eval"
       ELSE /\ pc' = "page_end"
            /\ UNCHANGED <<iterator, row, rowArray, arrayVar, tclReturn,
                           delivered, rowFailed>>
    /\ UNCHANGED <<pages, statement, has_more_pages, result, columnCount,
                   interpResult, errorLine, errorInfo, liveFutures,
                   liveResults, liveIterators, evalLog, lastCode, codeCount,
                   execLog>>

\* whether a code of the body leaves the while loop
EvalLeavesLoop(code) == code # "TCL_OK" /\ code # "TCL_CONTINUE"

\* EvalReturn with the body's error not recorded
EvalReturn_noerror(ret, code) ==
    IF EvalLeavesLoop(code) /\ code = "TCL_BREAK" THEN "TCL_BREAK" ELSE ret

\* tclReturn after the body ended with code
EvalReturn(ret, code) ==
    IF EvalLeavesLoop(code)
    THEN IF code = "TCL_BREAK" THEN "TCL_BREAK"
         ELSE IF code = "TCL_ERROR" THEN "TCL_ERROR"
         ELSE ret
    ELSE ret

\* the lines of the code body at which an error can be raised
ErrorLines == {1, 3}

\* BodyLineMsg with the number of the row in the place of the error line
BodyLineMsg_rowindex(line, nth) == [cmd |-> "select", line |-> nth]

\* what is added to errorInfo when the body failed at line, on the nth
\* row: ("select" body line <line>)
BodyLineMsg(line, nth) == [cmd |-> "select", line |-> line]

\* the code body is evaluated for the current row; when it fails the
\* interpreter holds the line of the error, which goes into errorInfo
EvalBody ==
    /\ pc = "eval"
    /\ UNCHANGED <<upsertVars, statementVars, schemaVars>>
    /\ \E code \in TclCodes :
          /\ evalLog' = Append(evalLog,
                 [page |-> result, row |-> iterator, nth |-> delivered,
                  execs |-> Len(execLog)])
          /\ lastCode' = code
          /\ codeCount' = IF code \in OtherCodes
                          THEN [codeCount EXCEPT ![code] = @ + 1]
                          ELSE codeCount
          /\ tclReturn' = EvalReturn(tclReturn, code)
          /\ IF code = "TCL_ERROR"
             THEN /\ errorLine' \in ErrorLines
                  /\ errorInfo' = Append(errorInfo,
                                         BodyLineMsg(errorLine', delivered))
             ELSE UNCHANGED <<errorLine, errorInfo>>
          /\ pc' = IF EvalLeavesLoop(code) THEN "page_end" ELSE "next_row"
    /\ row' = NoRow
    /\ UNCHANGED <<pages, statement, has_more_pages, result, iterator,
                   columnCount, rowArray, arrayVar, interpResult, liveFutures,
                   liveResults, liveIterators, delivered, rowFailed, execLog>>

\* NextPagingState with the paging state never installed
NextPagingState_stale(stmt, more, res) == stmt

\* NextPagingState with the paging state of the page before the one held
\* by res
NextPagingState_earlier(stmt, more, res) ==
    IF more
    THEN [stmt EXCEPT !.pagingState = PagingToken(IF res > 1 THEN res - 1 ELSE res)]
    ELSE stmt

\* the paging state of the statement after the page held by res
NextPagingState(stmt, more, res) ==
    IF more THEN [stmt EXCEPT !.pagingState = PagingToken(res)] ELSE stmt

\* LoopAgain with tclReturn not consulted
LoopAgain_anyway(more, ret) == more

\* the do loop's condition
LoopAgain(more, ret) == more /\ ret = "TCL_OK"

\* ReleasePage with nothing freed
ReleasePage_kept(live, e) == live

\* the objects not freed after those of the execution e were freed
ReleasePage(live, e) == live \ {e}

\* the tail of the do loop: the paging state is taken from the result when
\* it has more pages, iterator and result are freed
PageEnd ==
    /\ pc = "page_end"
    /\ UNCHANGED <<upsertVars, statementVars, schemaVars>>
    /\ has_more_pages' = cass_result_has_more_pages(result)
    /\ statement' = NextPagingState(statement, has_more_pages', result)
    /\ liveIterators' = ReleasePage(liveIterators, Len(execLog))
    /\ liveResults' = ReleasePage(liveResults, Len(execLog))
    /\ pc' = IF LoopAgain(has_more_pages', tclReturn) THEN "execute" ELSE "cleanup"
    /\ UNCHANGED <<pages, tclReturn, result, iterator, columnCount, row,
                   rowArray, arrayVar, interpResult, errorLine, errorInfo,
                   liveFutures, delivered, rowFailed, evalLog, lastCode,
                   codeCount, execLog>>

\* the code casstcl_select returns
SelectResult(ret) == IF ret = "TCL_BREAK" THEN "TCL_OK" ELSE ret

\* after the do loop: the statement is freed, the array is unset and
\* TCL_BREAK becomes TCL_OK
SelectReturn ==
    /\ pc = "cleanup"
    /\ UNCHANGED <<upsertVars, statementVars, schemaVars>>
    /\ statement' = [statement EXCEPT !.live = FALSE, !.frees = @ + 1]
    /\ rowArray' = EmptyArray
    /\ arrayVar' = FALSE
    /\ tclReturn' = SelectResult(tclReturn)
    /\ pc' = "done"
    /\ UNCHANGED <<pages, has_more_pages, result, iterator, columnCount, row,
                   interpResult, errorLine, errorInfo, liveFutures,
                   liveResults, liveIterators, delivered, rowFailed, evalLog,
                   lastCode, codeCount, execLog>>

SelectNext ==
    \/ SelectEnter
    \/ ExecutePage
    \/ FetchRow
    \/ EvalBody
    \/ PageEnd
    \/ SelectReturn

SelectSpec == SelectInit /\ [][SelectNext]_vars

\* --------------------------------------------------------- upsert: inputs
\* the options of the upsert, each with the words it takes
OptionWords == [mapunknown |-> <<"-mapunknown", "extra">>,
                nocomplain |-> <<"-nocomplain">>,
                ifnotexists |-> <<"-ifnotexists">>]

RECURSIVE Concat(_)
Concat(ss) == IF ss = <<>> THEN <<>> ELSE Head(ss) \o Concat(Tail(ss))

\* every order of every choice of options, each given once
OptionOrders ==
    UNION {{o \in [1..n -> DOMAIN OptionWords] :
               \A a, b \in 1..n : o[a] = o[b] => a = b} :
           n \in 0..Cardinality(DOMAIN OptionWords)}

\* the arguments before the table name: the well-formed ones, -mapunknown
\* without a column name, -mapunknown followed by another option and a word
\* that is no option
OptionLists ==
    {Concat([k \in DOMAIN o |-> OptionWords[o[k]]]) : o \in OptionOrders}
    \cup {<<"-mapunknown">>, <<"-mapunknown", "-nocomplain">>, <<"-bogus">>,
          <<"-nocomplain", "-mapunknown">>}

\* the name/value pairs a list is made of
ListPairs == {<<n, v>> : n \in ListNames, v \in ListValues}

\* every list of at most MaxPairs pairs, and each of them followed by one
\* more name
ListObjs ==
    LET even == {Concat(pl) : pl \in UNION {[1..k -> ListPairs] : k \in 0..MaxPairs}}
    IN even \cup {l \o <<n>> : l \in even, n \in ListNames}

UpsertInit ==
    /\ upc = "objv"
    /\ \/ /\ objc = 1
          /\ optv = <<>>
          /\ listObj = <<>>
          /\ listParses = TRUE
       \/ /\ optv \in OptionLists
          /\ objc = Len(optv) + 2
          /\ \/ listObj \in ListObjs /\ listParses = TRUE
             \/ listObj = <<>> /\ listParses = FALSE
    /\ mapUnknown = NULL
    /\ dropUnknown = FALSE
    /\ ifNotExists = FALSE
    /\ listObjv = <<>>
    /\ ds = <<>>
    /\ nFields = 0
    /\ didOne = FALSE
    /\ nUnknownToMap = 0
    /\ typeInfo = <<>>
    /\ idx = 0
    /\ upsertReturn = "TCL_OK"
    /\ upsertStatement = NoStatement
    /\ bindField = 0
    /\ collection = <<>>
    /\ statementPtr = CallerStatement
    /\ upsertResult = <<>>
    /\ resolveCalls = 0
    /\ faults = {}
    /\ SelectIdle
    /\ StatementIdle
    /\ SchemaIdle

\* ---------------------------------------------------------- upsert: steps
\* the for loop over the options: arg is the index of the next word, st
\* the options found so far and whether the arguments are well formed
\* the message of Tcl_GetIndexFromObj for a word that is no option
BadOption(word) ==
    <<"bad option \"", word,
      "\": must be -mapunknown, -nocomplain, or -ifnotexists">>

\* the message of Tcl_WrongNumArgs
WrongNumArgs(usage) == <<"wrong # args: should be \"", usage, "\"">>

RECURSIVE ParseOptions(_, _, _)
ParseOptions(v, arg, st) ==
    IF arg > Len(v) \/ ~st.ok THEN st
    ELSE CASE v[arg] = "-mapunknown" ->
                 IF arg + 1 > Len(v)
                 THEN [st EXCEPT !.ok = FALSE,
                                 !.msg = <<"-mapunknown requires a column name">>]
                 ELSE ParseOptions(v, arg + 2, [st EXCEPT !.mapUnknown = v[arg + 1]])
           [] v[arg] = "-nocomplain" ->
                 ParseOptions(v, arg + 1, [st EXCEPT !.dropUnknown = TRUE])
           [] v[arg] = "-ifnotexists" ->
                 ParseOptions(v, arg + 1, [st EXCEPT !.ifNotExists = TRUE])
           [] OTHER -> [st EXCEPT !.ok = FALSE, !.msg = BadOption(v[arg])]

\* casstcl_make_upsert_statement_from_objv: the options are parsed and
\* casstcl_make_upsert_statement is entered with them; when an option is
\* refused the function returns with the locals the options before it set
UpsertFromObjv ==
    /\ upc = "objv"
    /\ UNCHANGED <<selectVars, statementVars, schemaVars>>
    /\ LET st == ParseOptions(optv, 1,
                   [ok |-> TRUE, mapUnknown |-> NULL, dropUnknown |-> FALSE,
                    ifNotExists |-> FALSE, msg |-> <<>>])
       IN /\ IF objc < 2 \/ ~st.ok
             THEN /\ upsertReturn' = "TCL_ERROR"
                  /\ upsertResult' =
                        IF objc < 2
                        THEN WrongNumArgs("?-mapunknown columnName? ?-nocomplain? ?-ifnotexists? keyspace.tableName keyValuePairList")
                        ELSE st.msg
                  /\ upc' = "done"
             ELSE /\ upc' = "list"
                  /\ UNCHANGED <<upsertReturn, upsertResult>>
          /\ mapUnknown' = st.mapUnknown
          /\ dropUnknown' = st.dropUnknown
          /\ ifNotExists' = st.ifNotExists
    /\ UNCHANGED <<objc, optv, listObj, listParses, listObjv, ds, nFields,
                   didOne, nUnknownToMap, typeInfo, idx, upsertStatement,
                   bindField, collection, statementPtr, resolveCalls, faults>>

\* ListRefused without the test of the list's length
ListRefused_anylength(parses, list) == ~parses

\* whether the list is refused before anything is built
ListRefused(parses, list) == ~parses \/ Len(list) % 2 = 1

\* casstcl_make_upsert_statement up to the first loop: the list is split,
\* a list of odd length is refused, the head of the insert is written and
\* the type info cache is allocated
UpsertEnter ==
    /\ upc = "list"
    /\ UNCHANGED <<selectVars, statementVars, schemaVars>>
    /\ IF ListRefused(listParses, listObj)
       THEN /\ upsertReturn' = "TCL_ERROR"
            /\ upsertResult' =
                  IF ~listParses
                  THEN upsertResult \o <<" while parsing list of key-value pairs">>
                  ELSE <<"key-value pair list must contain an even number of elements">>
            /\ upc' = "done"
            /\ UNCHANGED <<listObjv, ds, typeInfo>>
       ELSE /\ listObjv' = listObj
            /\ ds' = <<"INSERT INTO ", TableName, " (">>
            /\ typeInfo' = [k \in 1..(Len(listObj) \div 2) |-> "uninit"]
            /\ upc' = "resolve"
            /\ UNCHANGED <<upsertReturn, upsertResult>>
    /\ UNCHANGED <<objc, optv, listObj, listParses, mapUnknown, dropUnknown,
                   ifNotExists, nFields, didOne, nUnknownToMap, idx,
                   upsertStatement, bindField, collection, statementPtr,
                   resolveCalls, faults>>

\* casstcl_typename_obj_to_cass_value_types when it does not fail: the
\* type of a column of the table with TCL_OK, Unknown with TCL_CONTINUE
\* for any other name
casstcl_typename_obj_to_cass_value_types(name) ==
    IF name \in DOMAIN TableColumns
    THEN [rc |-> "TCL_OK", type |-> TableColumns[name]]
    ELSE [rc |-> "TCL_CONTINUE", type |-> "unknown"]

\* UnknownPolicy with the two tests in the other order
UnknownPolicy_mapfirst(drop, map) ==
    IF map # NULL THEN "map" ELSE IF drop THEN "drop" ELSE "error"

\* UnknownPolicy with drop-unknown not honoured
UnknownPolicy_nodrop(drop, map) ==
    IF map # NULL THEN "map" ELSE "error"

\* UnknownPolicy with the unknown column never refused
UnknownPolicy_noerror(drop, map) ==
    IF drop THEN "drop" ELSE "map"

\* what becomes of a pair whose column the resolver did not find
UnknownPolicy(drop, map) ==
    IF drop THEN "drop" ELSE IF map # NULL THEN "map" ELSE "error"

\* the message for a column the table does not have
UnknownColumnMsg(name, table) ==
    <<"unknown column '", name, "' in upsert for table '", table, "'">>

\* the name of listObjv[i] and the value listObjv[i+1], i counted from 0
NameAt(list, k) == list[k + 1]
ValueAt(list, k) == list[k + 2]

\* the column list after a recognized column was appended
AppendColumn(str, one, name) ==
    (IF one THEN Append(str, ",") ELSE str) \o <<name>>

\* one pass of the first loop: the type of the pair's column is resolved;
\* an unknown column is dropped, counted for the map or refused, a known
\* one is appended to the column list
ResolveColumn ==
    /\ upc = "resolve"
    /\ UNCHANGED <<selectVars, statementVars, schemaVars>>
    /\ IF idx >= Len(listObjv)
       THEN /\ upc' = "compose"
            /\ UNCHANGED <<typeInfo, upsertReturn, nUnknownToMap, ds, nFields,
                           didOne, idx, resolveCalls, faults, upsertResult>>
       ELSE /\ resolveCalls' = resolveCalls + 1
            /\ \E fails \in BOOLEAN :
                 LET name == NameAt(listObjv, idx)
                     found == casstcl_typename_obj_to_cass_value_types(name)
                     policy == UnknownPolicy(dropUnknown, mapUnknown)
                 IN IF fails
                    THEN /\ upsertReturn' = "TCL_ERROR"
                         /\ faults' = faults \cup {"resolve"}
                         /\ upc' = "compose"
                         /\ UNCHANGED <<typeInfo, nUnknownToMap, ds, nFields,
                                        didOne, idx, upsertResult>>
                    ELSE /\ typeInfo' = [typeInfo EXCEPT ![idx \div 2 + 1] = found.type]
                         /\ UNCHANGED faults
                         /\ IF found.rc = "TCL_CONTINUE"
                            THEN /\ upsertReturn' =
                                       IF policy = "error" THEN "TCL_ERROR" ELSE "TCL_OK"
                                 /\ nUnknownToMap' =
                                       IF policy = "map" THEN nUnknownToMap + 1
                                       ELSE nUnknownToMap
                                 /\ idx' = IF policy = "error" THEN idx ELSE idx + 2
                                 /\ upc' = IF policy = "error" THEN "compose" ELSE "resolve"
                                 /\ upsertResult' =
                                       IF policy = "error"
                                       THEN UnknownColumnMsg(name, TableName)
                                       ELSE upsertResult
                                 /\ UNCHANGED <<ds, nFields, didOne>>
                            ELSE /\ ds' = AppendColumn(ds, didOne, name)
                                 /\ nFields' = nFields + 1
                                 /\ didOne' = TRUE
                                 /\ idx' = idx + 2
                                 /\ upsertReturn' = found.rc
                                 /\ upc' = "resolve"
                                 /\ UNCHANGED <<nUnknownToMap, upsertResult>>
    /\ UNCHANGED <<objc, optv, listObj, listParses, mapUnknown, dropUnknown,
                   ifNotExists, listObjv, upsertStatement, bindField,
                   collection, statementPtr>>

\* FieldsWithMap with the map column not counted
FieldsWithMap_uncounted(n, unknown) == n

\* nFields after the map column was counted
FieldsWithMap(n, unknown) == IF unknown > 0 THEN n + 1 ELSE n

\* the column list after the map column was appended
AppendMapColumn(str, one, unknown, map) ==
    IF unknown > 0
    THEN (IF one THEN Append(str, ",") ELSE str) \o <<map>>
    ELSE str

\* Placeholders with the last field given none
Placeholders_short(n) == [k \in 1..(n - 1) |-> IF k > 1 THEN ",?" ELSE "?"]

\* the placeholders of n fields
Placeholders(n) == [k \in 1..n |-> IF k > 1 THEN ",?" ELSE "?"]

\* the end of the insert
Closing(ine) == IF ine THEN <<") IF NOT EXISTS">> ELSE <<")">>

\* after the first loop: the map column is appended when unknown columns
\* were counted for it, then the values part of the insert is written
ComposeQuery ==
    /\ upc = "compose"
    /\ UNCHANGED <<selectVars, statementVars, schemaVars>>
    /\ nFields' = FieldsWithMap(nFields, nUnknownToMap)
    /\ ds' = AppendMapColumn(ds, didOne, nUnknownToMap, mapUnknown)
                \o <<") values (">> \o Placeholders(nFields') \o Closing(ifNotExists)
    /\ upc' = IF upsertReturn = "TCL_OK" THEN "create" ELSE "cleanup"
    /\ UNCHANGED <<objc, optv, listObj, listParses, mapUnknown, dropUnknown,
                   ifNotExists, listObjv, didOne, nUnknownToMap, typeInfo, idx,
                   upsertReturn, upsertStatement, bindField, collection,
                   statementPtr, upsertResult, resolveCalls, faults>>

\* the statement is created from the insert with nFields parameters and
\* the consistency level is applied; when that fails the function leaves
\* through cleanup
CreateStatement ==
    /\ upc = "create"
    /\ UNCHANGED <<selectVars, statementVars, schemaVars>>
    /\ upsertStatement' = [live |-> TRUE, query |-> ds, nparams |-> nFields,
                           binds |-> <<>>]
    /\ bindField' = 0
    /\ idx' = 0
    /\ \E consistencyOk \in BOOLEAN :
          IF consistencyOk
          THEN /\ upc' = "bind"
               /\ UNCHANGED <<upsertReturn, faults>>
          ELSE /\ upc' = "cleanup"
               /\ upsertReturn' = "TCL_ERROR"
               /\ faults' = faults \cup {"consistency"}
    /\ UNCHANGED <<objc, optv, listObj, listParses, mapUnknown, dropUnknown,
                   ifNotExists, listObjv, ds, nFields, didOne, nUnknownToMap,
                   typeInfo, collection, statementPtr, upsertResult,
                   resolveCalls>>

\* casstcl_cass_error_to_tcl: the Tcl code of a CassError that is not CASS_OK
casstcl_cass_error_to_tcl == "TCL_ERROR"

\* where the function goes on after the loop that binds the known columns
AfterBindLoop(unknown) == IF unknown > 0 THEN "map" ELSE "finish"

\* whether the second loop skips the pair k
BindSkips(info, k) == info[k] = "unknown"

\* what is appended to the message of a bind that failed
BindFailedMsg(name, type, value, table) ==
    <<" while constructing upsert statement, while attempting to bind field '",
      name, "' of type '", type, "', value '", value,
      "' referencing table '", table, "'">>

\* NextBindField with the position never advanced
NextBindField_stuck(b) == b

\* bindField after a value was bound at it (bindField++)
NextBindField(b) == b + 1

\* one pass of the second loop: a pair whose type is Unknown is skipped,
\* the value of any other is bound at the next position
BindField ==
    /\ upc = "bind"
    /\ UNCHANGED <<selectVars, statementVars, schemaVars>>
    /\ LET k == idx \div 2 + 1
       IN IF idx >= Len(listObjv)
          THEN /\ upc' = AfterBindLoop(nUnknownToMap)
               /\ idx' = 0
               /\ UNCHANGED <<upsertReturn, upsertStatement, bindField, faults,
                              upsertResult>>
          ELSE IF BindSkips(typeInfo, k)
          THEN /\ idx' = idx + 2
               /\ UNCHANGED <<upc, upsertReturn, upsertStatement, bindField,
                              faults, upsertResult>>
          ELSE IF ~(bindField < nFields)
          THEN /\ upc' = "aborted"
               /\ UNCHANGED <<idx, upsertReturn, upsertStatement, bindField,
                              faults, upsertResult>>
          ELSE /\ bindField' = NextBindField(bindField)
               /\ \E bound \in BOOLEAN :
                    IF bound
                    THEN /\ upsertStatement' =
                               [upsertStatement EXCEPT !.binds = Append(@,
                                   [pos |-> bindField, kind |-> typeInfo[k],
                                    pair |-> k, name |-> NameAt(listObjv, idx),
                                    value |-> <<ValueAt(listObjv, idx)>>])]
                         /\ idx' = idx + 2
                         /\ UNCHANGED <<upc, upsertReturn, faults, upsertResult>>
                    ELSE /\ upsertReturn' = "TCL_ERROR"
                         /\ upsertResult' = upsertResult \o
                               BindFailedMsg(NameAt(listObjv, idx), typeInfo[k],
                                             ValueAt(listObjv, idx), TableName)
                         /\ faults' = faults \cup {"bind"}
                         /\ upc' = AfterBindLoop(nUnknownToMap)
                         /\ idx' = 0
                         /\ UNCHANGED upsertStatement
    /\ UNCHANGED <<objc, optv, listObj, listParses, mapUnknown, dropUnknown,
                   ifNotExists, listObjv, ds, nFields, didOne, nUnknownToMap,
                   typeInfo, collection, statementPtr, resolveCalls>>

\* whether the loop over the unknown pairs skips the pair k
MapSkips(info, k) == info[k] # "unknown"

\* one pass of the loop over the unknown pairs: the name and then the
\* value of a pair whose type is Unknown are appended to the map as text
AppendToMap ==
    /\ upc = "map"
    /\ UNCHANGED <<selectVars, statementVars, schemaVars>>
    /\ LET k == idx \div 2 + 1
           name == [type |-> "text", pair |-> k, str |-> NameAt(listObjv, idx)]
           value == [type |-> "text", pair |-> k, str |-> ValueAt(listObjv, idx)]
       IN IF idx >= Len(listObjv)
          THEN /\ upc' = "bindmap"
               /\ UNCHANGED <<idx, collection, upsertReturn, faults>>
          ELSE IF MapSkips(typeInfo, k)
          THEN /\ idx' = idx + 2
               /\ UNCHANGED <<upc, collection, upsertReturn, faults>>
          ELSE \E outcome \in {"ok", "name_fails", "value_fails"} :
                 CASE outcome = "ok" ->
                        /\ collection' = collection \o <<name, value>>
                        /\ idx' = idx + 2
                        /\ UNCHANGED <<upc, upsertReturn, faults>>
                   [] outcome = "name_fails" ->
                        /\ upsertReturn' = casstcl_cass_error_to_tcl
                        /\ faults' = faults \cup {"append"}
                        /\ upc' = "bindmap"
                        /\ UNCHANGED <<idx, collection>>
                   [] outcome = "value_fails" ->
                        /\ collection' = Append(collection, name)
                        /\ upsertReturn' = casstcl_cass_error_to_tcl
                        /\ faults' = faults \cup {"append"}
                        /\ upc' = "bindmap"
                        /\ UNCHANGED idx
    /\ UNCHANGED <<objc, optv, listObj, listParses, mapUnknown, dropUnknown,
                   ifNotExists, listObjv, ds, nFields, didOne, nUnknownToMap,
                   typeInfo, upsertStatement, bindField, statementPtr,
                   upsertResult, resolveCalls>>

\* the map collection is bound at the position after the known columns
\* and freed; a bind that fails leaves the statement as it was
BindMap ==
    /\ upc = "bindmap"
    /\ UNCHANGED <<selectVars, statementVars, schemaVars>>
    /\ IF ~(bindField < nFields)
       THEN /\ upc' = "aborted"
            /\ UNCHANGED <<upsertStatement, collection, upsertReturn, faults>>
       ELSE /\ \E bound \in BOOLEAN :
                 IF bound
                 THEN /\ upsertStatement' =
                            [upsertStatement EXCEPT !.binds = Append(@,
                                [pos |-> bindField, kind |-> "collection",
                                 pair |-> 0, name |-> mapUnknown,
                                 value |-> collection])]
                      /\ UNCHANGED <<upsertReturn, faults>>
                 ELSE /\ upsertReturn' = casstcl_cass_error_to_tcl
                      /\ faults' = faults \cup {"bindmap"}
                      /\ UNCHANGED upsertStatement
            /\ collection' = <<>>
            /\ upc' = "finish"
    /\ UNCHANGED <<objc, optv, listObj, listParses, mapUnknown, dropUnknown,
                   ifNotExists, listObjv, ds, nFields, didOne, nUnknownToMap,
                   typeInfo, idx, bindField, statementPtr, upsertResult,
                   resolveCalls>>

\* HandOver with tclReturn not consulted
HandOver_always(ptr, stmt, ret, at) ==
    IF at = "finish" THEN stmt ELSE ptr

\* the caller's statement pointer after the binds
HandOver(ptr, stmt, ret, at) ==
    IF at = "finish" /\ ret = "TCL_OK" THEN stmt ELSE ptr

\* the statement is handed to the caller when everything went well, then
\* the insert string and the type info cache are freed
UpsertReturn ==
    /\ upc \in {"finish", "cleanup"}
    /\ UNCHANGED <<selectVars, statementVars, schemaVars>>
    /\ statementPtr' = HandOver(statementPtr, upsertStatement, upsertReturn, upc)
    /\ ds' = <<>>
    /\ typeInfo' = <<>>
    /\ upc' = "done"
    /\ UNCHANGED <<objc, optv, listObj, listParses, mapUnknown, dropUnknown,
                   ifNotExists, listObjv, nFields, didOne, nUnknownToMap, idx,
                   upsertReturn, upsertStatement, bindField, collection,
                   upsertResult, resolveCalls, faults>>

UpsertNext ==
    \/ UpsertFromObjv
    \/ UpsertEnter
    \/ ResolveColumn
    \/ ComposeQuery
    \/ CreateStatement
    \/ BindField
    \/ AppendToMap
    \/ BindMap
    \/ UpsertReturn

UpsertSpec == UpsertInit /\ [][UpsertNext]_vars

\* -------------------------------------------------------- statement: steps
\* the largest number of arguments
MaxArgs == 5

\* every argument list of at most MaxArgs words
ArgLists == UNION {[1..n -> Words] : n \in 0..MaxArgs}

StatementInit ==
    /\ spc = "options"
    /\ argOffset \in ArgOffsets
    /\ newObjv \in ArgLists
    /\ stmtArg = 0
    /\ arrayStyle = FALSE
    /\ arrayName = NULL
    /\ tableName = NULL
    /\ preparedName = NULL
    /\ consistencyObj = NULL
    /\ consistency = Uninitialized
    /\ stmtReturn = "TCL_OK"
    /\ stmtResult = <<>>
    /\ bindCall = NoCall
    /\ SelectIdle
    /\ UpsertIdle
    /\ SchemaIdle

\* newObjv[a], a counted from 0
WordAt(v, a) == v[a + 1]

\* the message of Tcl_GetIndexFromObj for a word that is no option
BadStatementOption(word) ==
    <<"bad option \"", word,
      "\": must be -array, -table, -prepared, or -consistency">>

\* casstcl_obj_to_cass_consistency: the level of a name it knows with
\* TCL_OK, TCL_ERROR for any other word
casstcl_obj_to_cass_consistency(word) ==
    IF word \in ConsistencyLevels
    THEN [rc |-> "TCL_OK", level |-> word]
    ELSE [rc |-> "TCL_ERROR", level |-> Uninitialized]

\* the while loop over the options: st holds arg, the locals the options
\* set and how the loop was left ("loop" while it runs)
RECURSIVE OptionLoop(_, _)
OptionLoop(v, st) ==
    IF st.exit # "loop" THEN st
    ELSE IF ~(st.arg < Len(v)) THEN [st EXCEPT !.exit = "end"]
    ELSE IF WordAt(v, st.arg) \notin DashWords THEN [st EXCEPT !.exit = "end"]
    ELSE IF WordAt(v, st.arg) \notin OptionNames
    THEN [st EXCEPT !.arg = @ + 1, !.exit = "bad_option"]
    ELSE LET opt == WordAt(v, st.arg)
             a == st.arg + 1
         IN IF a >= Len(v)
            THEN [st EXCEPT !.arg = a, !.exit = "wrong_numargs"]
            ELSE LET val == WordAt(v, a)
                     parsed == casstcl_obj_to_cass_consistency(val)
                 IN CASE opt = "-array" ->
                           OptionLoop(v, [st EXCEPT !.arg = a + 1,
                                                    !.arrayName = val,
                                                    !.arrayStyle = TRUE])
                      [] opt = "-table" ->
                           OptionLoop(v, [st EXCEPT !.arg = a + 1,
                                                    !.tableName = val,
                                                    !.arrayStyle = TRUE])
                      [] opt = "-prepared" ->
                           OptionLoop(v, [st EXCEPT !.arg = a + 1,
                                                    !.preparedName = val])
                      [] opt = "-consistency" ->
                           IF val # "" /\ parsed.rc # "TCL_OK"
                           THEN [st EXCEPT !.arg = a + 1,
                                           !.consistencyObj = val,
                                           !.exit = "bad_consistency"]
                           ELSE OptionLoop(v, [st EXCEPT
                                    !.arg = a + 1,
                                    !.consistencyObj = val,
                                    !.consistency =
                                        IF val # "" THEN parsed.level ELSE @])

\* objv: the argOffset words in front of the arguments, then the arguments
StatementObjv(off, v) == SubSeq(CommandWords, 1, off) \o v

\* the number of words of objv Tcl_WrongNumArgs is told to repeat
UsageCount(off) == IF off <= 2 THEN off ELSE 2

\* the first n words of v, each followed by a space
RECURSIVE LeadingWords(_, _)
LeadingWords(n, v) ==
    IF n = 0 THEN <<>> ELSE LeadingWords(n - 1, v) \o <<v[n], " ">>

\* the message of Tcl_WrongNumArgs that repeats the first n words of v in
\* front of the usage
WrongNumArgsAfter(n, v, usage) ==
    <<"wrong # args: should be \"">> \o LeadingWords(n, v) \o <<usage, "\"">>

\* the usage Tcl_WrongNumArgs gives for the function
StatementUsage ==
    "?-array arrayName? ?-table tableName? ?-prepared preparedName? ?-consistency level? ?query? ?arg...?"

\* casstcl_make_statement_from_objv up to the end of the loop over the
\* options: an unknown option, an option without value and a consistency
\* level that does not parse return an error
StatementOptions ==
    /\ spc = "options"
    /\ UNCHANGED <<selectVars, upsertVars, schemaVars>>
    /\ LET st == OptionLoop(newObjv,
                   [arg |-> 0, arrayStyle |-> FALSE, arrayName |-> NULL,
                    tableName |-> NULL, preparedName |-> NULL,
                    consistencyObj |-> NULL, consistency |-> Uninitialized,
                    exit |-> "loop"])
       IN /\ stmtArg' = st.arg
          /\ arrayStyle' = st.arrayStyle
          /\ arrayName' = st.arrayName
          /\ tableName' = st.tableName
          /\ preparedName' = st.preparedName
          /\ consistencyObj' = st.consistencyObj
          /\ consistency' = st.consistency
          /\ CASE st.exit = "end" ->
                    /\ spc' = "modes"
                    /\ UNCHANGED <<stmtReturn, stmtResult>>
               [] st.exit = "bad_option" ->
                    /\ spc' = "done"
                    /\ stmtReturn' = "TCL_ERROR"
                    /\ stmtResult' = BadStatementOption(WordAt(newObjv, st.arg - 1))
               [] st.exit = "wrong_numargs" ->
                    /\ spc' = "done"
                    /\ stmtReturn' = "TCL_ERROR"
                    /\ stmtResult' = WrongNumArgsAfter(UsageCount(argOffset),
                                          StatementObjv(argOffset, newObjv),
                                          StatementUsage)
               [] st.exit = "bad_consistency" ->
                    /\ spc' = "done"
                    /\ stmtReturn' = "TCL_ERROR"
                    /\ UNCHANGED stmtResult
    /\ UNCHANGED <<argOffset, newObjv, bindCall>>

\* whether the arguments ran out without -prepared
QueryMissing(a, v, prepared) == a >= Len(v) /\ prepared = NULL

\* ModesRefused with -prepared allowed beside -table and -array
ModesRefused_never(prepared, style) == FALSE

\* whether -prepared was given with -table or -array
ModesRefused(prepared, style) == prepared # NULL /\ style

\* after the loop: no argument left without -prepared is an error, and so
\* is -prepared with -table or -array
StatementModes ==
    /\ spc = "modes"
    /\ UNCHANGED <<selectVars, upsertVars, schemaVars>>
    /\ IF QueryMissing(stmtArg, newObjv, preparedName)
       THEN /\ spc' = "done"
            /\ stmtReturn' = "TCL_ERROR"
            /\ stmtResult' = WrongNumArgsAfter(UsageCount(argOffset),
                                          StatementObjv(argOffset, newObjv),
                                          StatementUsage)
       ELSE IF ModesRefused(preparedName, arrayStyle)
       THEN /\ spc' = "done"
            /\ stmtReturn' = "TCL_ERROR"
            /\ stmtResult' = <<"-prepared cannot be used with -table / -array">>
       ELSE /\ spc' = IF preparedName # NULL THEN "prepared" ELSE "query"
            /\ UNCHANGED <<stmtReturn, stmtResult>>
    /\ UNCHANGED <<argOffset, newObjv, stmtArg, arrayStyle, arrayName, tableName,
                   preparedName, consistencyObj, consistency, bindCall>>

\* Tcl_ListObjGetElements: whether a word is a well-formed list, and the
\* number of its elements
ListParses(word) == word # "{"
ListLength(word) == IF word = "" THEN 0 ELSE 1

\* the consistency argument of a binding routine: the address of the local
\* when -consistency was given, NULL otherwise; seen is what the routine
\* reads there
ConsistencyOverride(obj, seen) == IF obj # NULL THEN seen ELSE NULL

\* what can be read from the local consistency
ConsistencySeen(level) ==
    IF level = Uninitialized THEN Indeterminate ELSE {level}

\* the -prepared branch: the prepared statement is looked up, at most one
\* argument may be left, a list of an even number of elements, and
\* casstcl_bind_names_from_prepared makes the statement
StatementPrepared ==
    /\ spc = "prepared"
    /\ UNCHANGED <<selectVars, upsertVars, schemaVars>>
    /\ spc' = "done"
    /\ \E pcdFound \in BOOLEAN :
         IF ~pcdFound
         THEN /\ stmtReturn' = "TCL_ERROR"
              /\ stmtResult' = <<"-prepared argument '", preparedName,
                                 "' isn't a valid prepared statement object">>
              /\ UNCHANGED <<stmtArg, bindCall>>
         ELSE IF stmtArg < Len(newObjv) /\ stmtArg + 1 # Len(newObjv)
         THEN /\ stmtReturn' = "TCL_ERROR"
              /\ stmtResult' = WrongNumArgsAfter(UsageCount(argOffset),
                                    StatementObjv(argOffset, newObjv),
                                    "-prepared prepared ?list?")
              /\ UNCHANGED <<stmtArg, bindCall>>
         ELSE IF stmtArg < Len(newObjv) /\ ~ListParses(WordAt(newObjv, stmtArg))
         THEN /\ stmtReturn' = "TCL_ERROR"
              /\ stmtResult' = stmtResult \o
                                 <<" while parsing list of column-value pairs">>
              /\ stmtArg' = stmtArg + 1
              /\ UNCHANGED bindCall
         ELSE IF stmtArg < Len(newObjv) /\ ListLength(WordAt(newObjv, stmtArg)) % 2 = 1
         THEN /\ stmtReturn' = "TCL_ERROR"
              /\ stmtResult' = <<"list must contain an even number of elements">>
              /\ stmtArg' = stmtArg + 1
              /\ UNCHANGED bindCall
         ELSE \E rc \in {"TCL_OK", "TCL_ERROR"}, seen \in ConsistencySeen(consistency) :
                /\ stmtArg' = IF stmtArg < Len(newObjv) THEN stmtArg + 1 ELSE stmtArg
                /\ bindCall' =
                      [routine |-> "casstcl_bind_names_from_prepared",
                       objc |-> IF stmtArg < Len(newObjv)
                                THEN ListLength(WordAt(newObjv, stmtArg)) ELSE 0,
                       consistency |-> ConsistencyOverride(consistencyObj, seen)]
                /\ stmtReturn' = rc
                /\ UNCHANGED stmtResult
    /\ UNCHANGED <<argOffset, newObjv, arrayStyle, arrayName, tableName,
                   preparedName,
                   consistencyObj, consistency>>

\* what is wrong with -array and -table when one of them was given
ArrayModeError(table, array) ==
    IF table = NULL THEN <<"-table must be specified if -array is specified">>
    ELSE IF array = NULL THEN <<"-array must be specified if -table is specified">>
    ELSE <<>>

\* the branch of a query: with -array or -table both must be given and
\* casstcl_bind_names_from_array makes the statement, otherwise
\* casstcl_bind_values_and_types does
StatementQuery ==
    /\ spc = "query"
    /\ UNCHANGED <<selectVars, upsertVars, schemaVars>>
    /\ spc' = "done"
    /\ stmtArg' = stmtArg + 1
    /\ IF arrayStyle /\ ArrayModeError(tableName, arrayName) # <<>>
       THEN /\ stmtReturn' = "TCL_ERROR"
            /\ stmtResult' = ArrayModeError(tableName, arrayName)
            /\ UNCHANGED bindCall
       ELSE \E rc \in {"TCL_OK", "TCL_ERROR"}, seen \in ConsistencySeen(consistency) :
              /\ bindCall' =
                    [routine |-> IF arrayStyle
                                 THEN "casstcl_bind_names_from_array"
                                 ELSE "casstcl_bind_values_and_types",
                     objc |-> Len(newObjv) - stmtArg',
                     consistency |-> ConsistencyOverride(consistencyObj, seen)]
              /\ stmtReturn' = rc
              /\ UNCHANGED stmtResult
    /\ UNCHANGED <<argOffset, newObjv, arrayStyle, arrayName, tableName,
                   preparedName,
                   consistencyObj, consistency>>

StatementNext ==
    \/ StatementOptions
    \/ StatementModes
    \/ StatementPrepared
    \/ StatementQuery

StatementSpec == StatementInit /\ [][StatementNext]_vars

\* ----------------------------------------------------------- schema: steps
SchemaInit ==
    /\ lpc = "call"
    /\ \/ /\ listFunc = "casstcl_list_keyspaces"
          /\ keyspaceArg = NULL
          /\ tableArg = NULL
          /\ includeTypes = FALSE
       \/ /\ listFunc = "casstcl_list_tables"
          /\ keyspaceArg \in KeyspaceArgs
          /\ tableArg = NULL
          /\ includeTypes = FALSE
       \/ /\ listFunc = "casstcl_list_columns"
          /\ keyspaceArg \in KeyspaceArgs
          /\ tableArg \in TableArgs
          /\ includeTypes \in BOOLEAN
    /\ schema = [gets |-> 0, frees |-> 0]
    /\ schemaIterator = [news |-> 0, frees |-> 0]
    /\ entries = <<>>
    /\ itPos = 0
    /\ listOut = <<>>
    /\ objPtr = NULL
    /\ listReturn = "TCL_OK"
    /\ listResult = <<>>
    /\ SelectIdle
    /\ UpsertIdle
    /\ StatementIdle

\* cass_schema_get_keyspace: whether the schema has the keyspace
cass_schema_get_keyspace(ks) == ks \in DOMAIN SchemaMeta

\* cass_schema_meta_get_entry: the tables of the keyspace with that name
cass_schema_meta_get_entry(ks, tbl) ==
    {k \in DOMAIN SchemaMeta[ks] : SchemaMeta[ks][k].name = tbl}

\* casstcl_list_keyspaces up to its loop: the schema is obtained and an
\* iterator over its keyspaces created
KeyspacesEnter ==
    /\ lpc = "call"
    /\ listFunc = "casstcl_list_keyspaces"
    /\ UNCHANGED <<selectVars, upsertVars, statementVars>>
    /\ schema' = [schema EXCEPT !.gets = @ + 1]
    /\ schemaIterator' = [schemaIterator EXCEPT !.news = @ + 1]
    /\ entries' = KeyspaceNames
    /\ itPos' = 0
    /\ listOut' = <<>>
    /\ listReturn' = "TCL_OK"
    /\ lpc' = "iterate"
    /\ UNCHANGED <<listFunc, keyspaceArg, tableArg, includeTypes, objPtr,
                   listResult>>

\* the message for a keyspace the schema does not have
KeyspaceNotFound(ks) == <<"keyspace '", ks, "' not found">>

\* casstcl_list_tables up to its loop: the schema is obtained and the
\* keyspace located; when it is not there the function returns an error,
\* otherwise an iterator over its tables is created
TablesEnter ==
    /\ lpc = "call"
    /\ listFunc = "casstcl_list_tables"
    /\ UNCHANGED <<selectVars, upsertVars, statementVars>>
    /\ schema' = [schema EXCEPT !.gets = @ + 1]
    /\ IF ~cass_schema_get_keyspace(keyspaceArg)
       THEN /\ listResult' = KeyspaceNotFound(keyspaceArg)
            /\ listReturn' = "TCL_ERROR"
            /\ lpc' = "done"
            /\ UNCHANGED <<schemaIterator, entries, itPos, listOut>>
       ELSE /\ schemaIterator' = [schemaIterator EXCEPT !.news = @ + 1]
            /\ entries' = [k \in DOMAIN SchemaMeta[keyspaceArg] |->
                              SchemaMeta[keyspaceArg][k].name]
            /\ itPos' = 0
            /\ listOut' = <<>>
            /\ listReturn' = "TCL_OK"
            /\ lpc' = "iterate"
            /\ UNCHANGED listResult
    /\ UNCHANGED <<listFunc, keyspaceArg, tableArg, includeTypes, objPtr>>

\* the message for a table the keyspace does not have
TableNotFound(tbl, ks) ==
    <<"table '", tbl, "' not found in keyspace '", ks, "'">>

\* casstcl_list_columns up to its loop: the schema is obtained, the
\* keyspace and the table located; when one is not there the function
\* returns an error, otherwise an iterator over the columns is created
ColumnsEnter ==
    /\ lpc = "call"
    /\ listFunc = "casstcl_list_columns"
    /\ UNCHANGED <<selectVars, upsertVars, statementVars>>
    /\ schema' = [schema EXCEPT !.gets = @ + 1]
    /\ IF ~cass_schema_get_keyspace(keyspaceArg)
       THEN /\ listResult' = KeyspaceNotFound(keyspaceArg)
            /\ listReturn' = "TCL_ERROR"
            /\ lpc' = "done"
            /\ UNCHANGED <<schemaIterator, entries, itPos, listOut>>
       ELSE IF cass_schema_meta_get_entry(keyspaceArg, tableArg) = {}
       THEN /\ listResult' = TableNotFound(tableArg, keyspaceArg)
            /\ listReturn' = "TCL_ERROR"
            /\ lpc' = "done"
            /\ UNCHANGED <<schemaIterator, entries, itPos, listOut>>
       ELSE /\ schemaIterator' = [schemaIterator EXCEPT !.news = @ + 1]
            /\ entries' =
                  LET k == CHOOSE j \in cass_schema_meta_get_entry(keyspaceArg, tableArg) : TRUE
                  IN SchemaMeta[keyspaceArg][k].columns
            /\ itPos' = 0
            /\ listOut' = <<>>
            /\ listReturn' = "TCL_OK"
            /\ lpc' = "iterate"
            /\ UNCHANGED listResult
    /\ UNCHANGED <<listFunc, keyspaceArg, tableArg, includeTypes, objPtr>>

\* one pass of the loop of casstcl_list_keyspaces or casstcl_list_tables:
\* the name of the next entry is appended to the list; a failed append
\* leaves the loop
NameEntry(func) ==
    /\ lpc = "iterate"
    /\ listFunc = func
    /\ UNCHANGED <<selectVars, upsertVars, statementVars>>
    /\ IF itPos >= Len(entries)
       THEN /\ lpc' = "finish"
            /\ UNCHANGED <<itPos, listOut, listReturn>>
       ELSE /\ itPos' = itPos + 1
            /\ \E appended \in BOOLEAN :
                 IF appended
                 THEN /\ listOut' = Append(listOut, entries[itPos + 1])
                      /\ UNCHANGED <<lpc, listReturn>>
                 ELSE /\ listReturn' = "TCL_ERROR"
                      /\ lpc' = "finish"
                      /\ UNCHANGED listOut
    /\ UNCHANGED <<listFunc, keyspaceArg, tableArg, includeTypes, schema,
                   schemaIterator, entries, objPtr, listResult>>

\* one pass of the loop of casstcl_list_keyspaces
KeyspaceEntry == NameEntry("casstcl_list_keyspaces")

\* one pass of the loop of casstcl_list_tables
TableEntry == NameEntry("casstcl_list_tables")

\* whether the loop over the columns skips an entry, were no entry skipped
ColumnSkipped_never(e) == FALSE

\* whether the loop over the columns skips an entry
ColumnSkipped(e) == e.type # "varchar"

\* one pass of the loop of casstcl_list_columns: an entry whose column_name
\* is no string is skipped; of any other the name is appended and, with
\* includeTypes, the type of its validator, taken from the cache or from
\* ::casstcl::validator_to_type
ColumnEntry ==
    /\ lpc = "iterate"
    /\ listFunc = "casstcl_list_columns"
    /\ UNCHANGED <<selectVars, upsertVars, statementVars>>
    /\ IF itPos >= Len(entries)
       THEN /\ lpc' = "finish"
            /\ UNCHANGED <<itPos, listOut, listReturn>>
       ELSE LET e == entries[itPos + 1]
            IN /\ itPos' = itPos + 1
               /\ IF ColumnSkipped(e)
                  THEN UNCHANGED <<lpc, listOut, listReturn>>
                  ELSE \E outcome \in {"ok", "name_fails", "eval_fails", "type_fails"} :
                         CASE outcome = "name_fails" ->
                                /\ listReturn' = "TCL_ERROR"
                                /\ lpc' = "finish"
                                /\ UNCHANGED listOut
                           [] outcome = "eval_fails" /\ includeTypes ->
                                /\ listOut' = Append(listOut, e.name)
                                /\ listReturn' = "TCL_ERROR"
                                /\ lpc' = "finish"
                           [] outcome = "type_fails" /\ includeTypes ->
                                /\ listOut' = Append(listOut, e.name)
                                /\ listReturn' = "TCL_ERROR"
                                /\ lpc' = "finish"
                           [] OTHER ->
                                /\ listOut' =
                                     IF includeTypes
                                     THEN listOut \o <<e.name, ValidatorType[e.validator]>>
                                     ELSE Append(listOut, e.name)
                                /\ listReturn' = "TCL_OK"
                                /\ UNCHANGED lpc
    /\ UNCHANGED <<listFunc, keyspaceArg, tableArg, includeTypes, schema,
                   schemaIterator, entries, objPtr, listResult>>

\* the schema after cass_schema_free
FreeSchema(s) == [s EXCEPT !.frees = @ + 1]

\* after the loop of one of the three functions: the iterator and the
\* schema are freed and the list is handed to the caller;
\* casstcl_list_columns resets the interpreter's result when all went well
ListReturn(func) ==
    /\ lpc = "finish"
    /\ listFunc = func
    /\ UNCHANGED <<selectVars, upsertVars, statementVars>>
    /\ schemaIterator' = [schemaIterator EXCEPT !.frees = @ + 1]
    /\ schema' = FreeSchema(schema)
    /\ objPtr' = listOut
    /\ listResult' = IF func = "casstcl_list_columns" /\ listReturn = "TCL_OK"
                     THEN <<>> ELSE listResult
    /\ lpc' = "done"
    /\ UNCHANGED <<listFunc, keyspaceArg, tableArg, includeTypes, entries,
                   itPos, listOut, listReturn>>

\* the end of casstcl_list_keyspaces
KeyspacesReturn == ListReturn("casstcl_list_keyspaces")

\* the end of casstcl_list_tables
TablesReturn == ListReturn("casstcl_list_tables")

\* the end of casstcl_list_columns
ColumnsReturn == ListReturn("casstcl_list_columns")

SchemaNext ==
    \/ KeyspacesEnter
    \/ TablesEnter
    \/ ColumnsEnter
    \/ KeyspaceEntry
    \/ TableEntry
    \/ ColumnEntry
    \/ KeyspacesReturn
    \/ TablesReturn
    \/ ColumnsReturn

SchemaSpec == SchemaInit /\ [][SchemaNext]_vars

\* ------------------------------------------------------- select: properties
\* the rows of pages 1..k of the result, page by page and row by row
RECURSIVE RowsUpTo(_)
RowsUpTo(k) ==
    IF k = 0 THEN <<>>
    ELSE RowsUpTo(k - 1) \o [r \in 1..pages[k] |-> <<k, r>>]

\* the rows the body was invoked for, in invocation order
EvalRows == [i \in DOMAIN evalLog |-> <<evalLog[i].page, evalLog[i].row>>]

IsPrefix(s, t) == Len(s) <= Len(t) /\ \A i \in DOMAIN s : s[i] = t[i]

\* so far every execution succeeded, no conversion or store failed and the
\* body always ended with TCL_OK or TCL_CONTINUE
CleanRun ==
    /\ \A k \in DOMAIN execLog : execLog[k].outcome = "ok"
    /\ \A c \in OtherCodes : codeCount[c] = 0
    /\ ~rowFailed

\* C1: in a run where every page execution succeeds, no conversion fails
\* and the body always ends with TCL_OK or TCL_CONTINUE, the body is
\* invoked for the rows of the result in page order then row order, each
\* once, for all N rows by the time casstcl_select returns, and the paging
\* state used for an execution is the one of the page executed just
\* before, never the one of an earlier page
C1_EveryRowOnceInOrder ==
    CleanRun =>
        /\ IsPrefix(EvalRows, RowsUpTo(Len(pages)))
        /\ (pc = "done" /\ execLog # <<>> =>
               /\ EvalRows = RowsUpTo(Len(pages))
               /\ Len(execLog) = Len(pages)
               /\ tclReturn = "TCL_OK")
        /\ \A k \in DOMAIN execLog :
               /\ execLog[k].page = k
               /\ (k > 1 => execLog[k].state = PagingToken(execLog[k - 1].page))
               /\ \A j \in 1..(k - 2) :
                      execLog[k].state # PagingToken(execLog[j].page)

\* C1 witness: a clean run over three pages, the first with two rows and
\* the last with one, has returned: the third execution used the paging
\* state of the second page, not of the first
C1_Witness ==
    /\ pc = "done"
    /\ CleanRun
    /\ Len(pages) = 3 /\ pages[1] = 2 /\ pages[3] = 1
    /\ Len(evalLog) = 3
    /\ Len(execLog) = 3
    /\ execLog[2].state = PagingToken(1)
    /\ execLog[3].state = PagingToken(2)
    /\ execLog[3].state # PagingToken(1)

\* C2: once the body has ended with TCL_BREAK on the r-th row delivered,
\* that was its last invocation and its r-th, no further row is delivered,
\* no further page is executed, and casstcl_select returns TCL_OK
C2_BreakStopsWithSuccess ==
    codeCount["TCL_BREAK"] > 0 =>
        /\ codeCount["TCL_BREAK"] = 1
        /\ lastCode = "TCL_BREAK"
        /\ evalLog[Len(evalLog)].nth = Len(evalLog)
        /\ delivered = Len(evalLog)
        /\ Len(execLog) = evalLog[Len(evalLog)].execs
        /\ pc \in {"page_end", "cleanup", "done"}
        /\ (pc = "done" => tclReturn = "TCL_OK")

\* C2 witness: the body broke on the second row of a page that has more
\* pages after it, and casstcl_select has returned
C2_Witness ==
    /\ pc = "done"
    /\ Len(evalLog) = 2
    /\ lastCode = "TCL_BREAK"
    /\ evalLog[2].page = 1
    /\ cass_result_has_more_pages(1)
    /\ pages[2] >= 1

\* C3: once the body has ended with TCL_ERROR that was its last
\* invocation, no later row is delivered, no further page is executed, and
\* casstcl_select returns TCL_ERROR
C3_BodyErrorStopsWithFailure ==
    codeCount["TCL_ERROR"] > 0 =>
        /\ codeCount["TCL_ERROR"] = 1
        /\ lastCode = "TCL_ERROR"
        /\ delivered = evalLog[Len(evalLog)].nth
        /\ Len(execLog) = evalLog[Len(evalLog)].execs
        /\ pc \in {"page_end", "cleanup", "done"}
        /\ tclReturn = "TCL_ERROR"

\* C3 witness: the body failed on the first row of a two-row page with a
\* further page, and casstcl_select has returned
C3_Witness ==
    /\ pc = "done"
    /\ Len(evalLog) = 1
    /\ lastCode = "TCL_ERROR"
    /\ pages[1] = 2
    /\ cass_result_has_more_pages(1)

\* C4: once an execution has failed it is the last one, the body is not
\* invoked after it (never at all when the first execution failed), every
\* invocation made before it was for a different row, and casstcl_select
\* returns TCL_ERROR
C4_ExecutionFailureStops ==
    \A k \in DOMAIN execLog :
        execLog[k].outcome = "error" =>
            /\ k = Len(execLog)
            /\ \A i \in DOMAIN evalLog : evalLog[i].execs < k
            /\ (k = 1 => evalLog = <<>>)
            /\ \A i, j \in DOMAIN evalLog : EvalRows[i] = EvalRows[j] => i = j
            /\ pc \in {"cleanup", "done"}
            /\ tclReturn = "TCL_ERROR"

\* C4 witness: the execution of the second page failed after the body ran
\* for both rows of the first page, and casstcl_select has returned
C4_Witness ==
    /\ pc = "done"
    /\ Len(execLog) = 2
    /\ execLog[2].outcome = "error"
    /\ Len(evalLog) = 2

\* C5: whenever the body is about to be invoked, the array holds for every
\* column the current row's value when the column is not null and no
\* element when it is null
C5_ArrayHoldsCurrentRow ==
    pc = "eval" =>
        \A c \in ColumnNames :
            /\ (row[c] = "null" => rowArray[c] = NoElem)
            /\ (row[c] \in Values => rowArray[c] = row[c])

\* C13: when casstcl_select has returned, the statement created at entry
\* has been freed, once
C13_StatementReleasedOnce ==
    pc = "done" => (statement.frees = 1 /\ ~statement.live)

\* C14: when casstcl_select has returned, the array variable does not exist
C14_ArrayUnsetOnReturn ==
    pc = "done" => (~arrayVar /\ rowArray = EmptyArray)

\* C17: an execution that succeeds without a result is the last one, the
\* body is invoked for no row after it, casstcl_select returns TCL_ERROR
\* with the message "future has no result", and no row is fetched and no
\* page is ended on a result that is NULL
C17_NullResultIsError ==
    /\ \A k \in DOMAIN execLog :
           execLog[k].outcome = "noresult" =>
               /\ k = Len(execLog)
               /\ \A i \in DOMAIN evalLog : evalLog[i].execs < k
               /\ pc \in {"cleanup", "done"}
               /\ tclReturn = "TCL_ERROR"
               /\ interpResult = <<"future has no result">>
               /\ result = 0
    /\ (pc \in {"next_row", "eval", "page_end"} => result # 0)

\* C17 witness: the execution of the second page had no result after the
\* body ran for the two rows of the first page, and casstcl_select has
\* returned
C17_Witness ==
    /\ pc = "done"
    /\ Len(execLog) = 2
    /\ execLog[2].outcome = "noresult"
    /\ Len(evalLog) = 2
    /\ tclReturn = "TCL_ERROR"

\* C18 (as amended): when the body has failed, what casstcl_select added
\* to errorInfo is the one line ("select" body line L), L being the line
\* of the body the interpreter reports for the error, and casstcl_select
\* returns TCL_ERROR; nothing is added when the body has not failed
C18_ErrorCarriesBodyLine ==
    IF codeCount["TCL_ERROR"] > 0
    THEN /\ errorLine \in ErrorLines
         /\ errorInfo = <<[cmd |-> "select", line |-> errorLine]>>
         /\ tclReturn = "TCL_ERROR"
    ELSE errorInfo = <<>>

\* C18 witness: the body failed at its line 3 on the second row
C18_Witness ==
    /\ pc = "done"
    /\ lastCode = "TCL_ERROR"
    /\ Len(evalLog) = 2
    /\ errorLine = 3
    /\ errorInfo = <<[cmd |-> "select", line |-> 3]>>

\* C18 as claimed: when the body has failed on the k-th row delivered,
\* the line added to errorInfo carries k
C18_ErrorCarriesRowIndex ==
    codeCount["TCL_ERROR"] > 0 =>
        errorInfo = <<[cmd |-> "select", line |-> evalLog[Len(evalLog)].nth]>>

\* C19: only the result and the iterator of the latest execution can be
\* live, and none is when the next execution is issued; every invocation
\* of the body is for a row of the page of the latest execution, which
\* succeeded; the i-th invocation is for the i-th row delivered, and a row
\* is delivered only when the body was invoked for every row before it
C19_OnePageAtATime ==
    /\ liveResults \subseteq {Len(execLog)}
    /\ liveIterators \subseteq {Len(execLog)}
    /\ (pc = "execute" => (liveResults = {} /\ liveIterators = {}))
    /\ (pc \in {"next_row", "eval", "page_end"} =>
           (liveResults = {Len(execLog)} /\ liveIterators = {Len(execLog)}))
    /\ \A i \in DOMAIN evalLog :
           /\ evalLog[i].execs \in DOMAIN execLog
           /\ execLog[evalLog[i].execs].outcome = "ok"
           /\ execLog[evalLog[i].execs].page = evalLog[i].page
           /\ (i > 1 => evalLog[i - 1].execs <= evalLog[i].execs)
           /\ evalLog[i].nth = i
    /\ delivered = Len(evalLog) + (IF pc = "eval" THEN 1 ELSE 0)

\* C19 witness: the body is about to run for a row of the second page
\* after it ran for a row of the first
C19_Witness ==
    /\ pc = "eval"
    /\ Len(execLog) = 2
    /\ execLog[2].page = 2
    /\ liveResults = {2}
    /\ liveIterators = {2}
    /\ Len(evalLog) >= 1

\* C22: once the body has ended with a code other than TCL_OK and
\* TCL_CONTINUE (TCL_BREAK, TCL_ERROR, TCL_RETURN or a custom code), that
\* was its last invocation, no later row is delivered and no further page
\* is executed
C22_AnyOtherCodeStopsForGood ==
    (\E c \in OtherCodes : codeCount[c] > 0) =>
        /\ lastCode \in OtherCodes
        /\ \A c \in OtherCodes :
              codeCount[c] = IF c = lastCode THEN 1 ELSE 0
        /\ delivered = evalLog[Len(evalLog)].nth
        /\ Len(execLog) = evalLog[Len(evalLog)].execs
        /\ pc \in {"page_end", "cleanup", "done"}

\* C23: once the conversion or the store of a cell of a row has failed,
\* the body is invoked neither for that row nor for a later one: the
\* iteration of the page is over
C23_NoBodyAfterFailedRow ==
    rowFailed =>
        /\ pc \in {"page_end", "cleanup", "done"}
        /\ \A i \in DOMAIN evalLog : evalLog[i].nth < delivered

\* C24: once the conversion or the store of a cell has failed,
\* casstcl_select returns TCL_ERROR, whatever the body ended with
\* afterwards
C24_FailedRowFailsCall ==
    (pc = "done" /\ rowFailed) => tclReturn = "TCL_ERROR"

\* C25: when casstcl_select has returned, every future, result and row
\* iterator it obtained has been freed; a result and its iterator are
\* live while the rows of their page are fetched, and of no other page
C25_PageObjectsReleased ==
    /\ (pc = "done" =>
           /\ liveFutures = {}
           /\ liveResults = {}
           /\ liveIterators = {})
    /\ (pc \in {"next_row", "eval", "page_end"} =>
           /\ liveResults = {Len(execLog)}
           /\ liveIterators = {Len(execLog)})

\* ------------------------------------------------------- upsert: properties
\* the pairs of the list, by number, whose column the table has, and the
\* others
PairCount == Len(listObj) \div 2
KnownPairs == {k \in 1..PairCount : listObj[2 * k - 1] \in DOMAIN TableColumns}
UnknownPairs == (1..PairCount) \ KnownPairs

\* the names of the pairs in ks, in list order
RECURSIVE NamesOf(_, _)
NamesOf(ks, k) ==
    IF k > PairCount THEN <<>>
    ELSE (IF k \in ks THEN <<listObj[2 * k - 1]>> ELSE <<>>) \o NamesOf(ks, k + 1)

\* the names and values of the pairs in ks as text, in list order
RECURSIVE TextOf(_, _)
TextOf(ks, k) ==
    IF k > PairCount THEN <<>>
    ELSE (IF k \in ks
          THEN <<[type |-> "text", pair |-> k, str |-> listObj[2 * k - 1]],
                 [type |-> "text", pair |-> k, str |-> listObj[2 * k]]>>
          ELSE <<>>) \o TextOf(ks, k + 1)

\* casstcl_make_upsert_statement has returned TCL_OK and handed over a statement
UpsertSucceeded ==
    /\ upc = "done"
    /\ upsertReturn = "TCL_OK"
    /\ statementPtr # CallerStatement

\* the arguments in front of the table name are options the function
\* accepts, so that casstcl_make_upsert_statement is called
OptionsAccepted ==
    /\ objc >= 2
    /\ ParseOptions(optv, 1,
           [ok |-> TRUE, mapUnknown |-> NULL, dropUnknown |-> FALSE,
            ifNotExists |-> FALSE, msg |-> <<>>]).ok

\* the list is well formed and no collaborator failed
UpsertUnhindered ==
    /\ listParses
    /\ Len(listObj) % 2 = 0
    /\ faults = {}

\* the column names between "(" and ") values (" of an insert
ColumnList(q) ==
    LET v == CHOOSE k \in 1..Len(q) : q[k] = ") values ("
        IsName(t) == t # ","
    IN SelectSeq(SubSeq(q, 4, v - 1), IsName)

\* the number of '?' of an insert
PlaceholderCount(q) ==
    LET v == CHOOSE k \in 1..Len(q) : q[k] = ") values ("
    IN Cardinality({k \in (v + 1)..Len(q) : q[k] \in {"?", ",?"}})

\* the binds of the map collection in the statement handed over
MapBinds == {k \in DOMAIN statementPtr.binds : statementPtr.binds[k].kind = "collection"}

\* C6 (as amended): when both the map column and drop-unknown are asked
\* for and the list holds an unknown column, drop-unknown wins: the
\* statement has the known columns only and no map is bound
C6_DropUnknownWins ==
    (UpsertSucceeded /\ dropUnknown /\ mapUnknown # NULL /\ UnknownPairs # {}) =>
        /\ MapBinds = {}
        /\ nUnknownToMap = 0
        /\ ColumnList(statementPtr.query) = NamesOf(KnownPairs, 1)
        /\ statementPtr.nparams = Cardinality(KnownPairs)
        /\ \A k \in DOMAIN statementPtr.binds :
               statementPtr.binds[k].pair \in KnownPairs

\* C6 witness: both options given, a known and an unknown column in the
\* list, and a statement was handed over
C6_Witness ==
    /\ UpsertSucceeded
    /\ dropUnknown
    /\ mapUnknown = "extra"
    /\ UnknownPairs # {}
    /\ KnownPairs # {}

\* C6 as claimed: with both options and an unknown column in the list the
\* unknown pair is in the map bound to the map column
C6_MapUnknownWins ==
    (UpsertSucceeded /\ dropUnknown /\ mapUnknown # NULL /\ UnknownPairs # {}) =>
        \E k \in MapBinds :
            statementPtr.binds[k].value = TextOf(UnknownPairs, 1)

\* C7: a statement handed over has as many '?' as column names as
\* parameters: one per pair of a known column, and one more exactly when
\* unknown pairs were put in the map
C7_PlaceholdersMatchFields ==
    UpsertSucceeded =>
        LET mapped == \E k \in MapBinds : statementPtr.binds[k].value # <<>>
            n == Cardinality(KnownPairs) + (IF mapped THEN 1 ELSE 0)
        IN /\ PlaceholderCount(statementPtr.query) = n
           /\ Len(ColumnList(statementPtr.query)) = n
           /\ statementPtr.nparams = n

\* C7 witness: a statement with a known column and the map of an unknown one
C7_Witness ==
    /\ UpsertSucceeded
    /\ MapBinds # {}
    /\ Cardinality(KnownPairs) = 1
    /\ statementPtr.nparams = 2

\* C8: for a list of odd length the resolver is never called, no
\* statement is created and the function returns TCL_ERROR
C8_OddListRefusedFirst ==
    Len(listObj) % 2 = 1 =>
        /\ resolveCalls = 0
        /\ upsertStatement = NoStatement
        /\ statementPtr = CallerStatement
        /\ upc \in {"objv", "list", "done"}
        /\ (upc = "done" => upsertReturn = "TCL_ERROR")

\* C8 witness: a list of three elements was refused by
\* casstcl_make_upsert_statement
C8_Witness ==
    /\ upc = "done"
    /\ optv = <<"-nocomplain">>
    /\ dropUnknown
    /\ Len(listObj) = 3
    /\ upsertReturn = "TCL_ERROR"

\* C9: casstcl_make_upsert_statement, called with drop-unknown and no map
\* column for a list with unknown columns, yields a statement: the unknown
\* columns are not in the column list, have no parameter and no bind, and
\* every known column is there and bound
C9_UnknownDropped ==
    (upc = "done" /\ OptionsAccepted /\ UpsertUnhindered /\ dropUnknown
        /\ mapUnknown = NULL /\ UnknownPairs # {}) =>
        /\ UpsertSucceeded
        /\ ColumnList(statementPtr.query) = NamesOf(KnownPairs, 1)
        /\ \A k \in UnknownPairs :
               listObj[2 * k - 1] \notin
                   {ColumnList(statementPtr.query)[j] :
                       j \in DOMAIN ColumnList(statementPtr.query)}
        /\ statementPtr.nparams = Cardinality(KnownPairs)
        /\ PlaceholderCount(statementPtr.query) = Cardinality(KnownPairs)
        /\ {statementPtr.binds[k].pair : k \in DOMAIN statementPtr.binds} = KnownPairs

\* C9 witness: drop-unknown, a known and an unknown column, a statement
C9_Witness ==
    /\ UpsertSucceeded
    /\ dropUnknown
    /\ mapUnknown = NULL
    /\ UnknownPairs # {}
    /\ KnownPairs # {}

\* C10: with a map column and without drop-unknown, a statement made from a
\* list with unknown columns names the map column once, last, and binds to
\* it one map of exactly the unknown pairs as text in list order; a
\* statement made from a list without unknown columns has no map column
C10_MapColumnOnceAndLast ==
    (UpsertSucceeded /\ mapUnknown # NULL /\ ~dropUnknown) =>
        LET cols == ColumnList(statementPtr.query)
        IN IF UnknownPairs # {}
           THEN /\ Cardinality({j \in DOMAIN cols : cols[j] = mapUnknown}) = 1
                /\ cols[Len(cols)] = mapUnknown
                /\ Cardinality(MapBinds) = 1
                /\ \A k \in MapBinds :
                      /\ statementPtr.binds[k].pos = statementPtr.nparams - 1
                      /\ statementPtr.binds[k].value = TextOf(UnknownPairs, 1)
           ELSE /\ MapBinds = {}
                /\ cols = NamesOf(KnownPairs, 1)

\* the first pair of the list whose column the table does not have
FirstUnknown == CHOOSE k \in UnknownPairs : \A j \in UnknownPairs : k <= j

\* C11: without drop-unknown and without a map column, a list with a
\* column the table does not have is refused: the resolver is not called
\* for any pair after the first unknown one, no statement is created, the
\* function returns TCL_ERROR and, unless the resolver itself failed
\* before, the message names that column and the table
C11_UnknownColumnRefused ==
    (listObjv # <<>> /\ ~dropUnknown /\ mapUnknown = NULL /\ UnknownPairs # {}) =>
        /\ resolveCalls <= FirstUnknown
        /\ upsertStatement = NoStatement
        /\ statementPtr = CallerStatement
        /\ upc \in {"resolve", "compose", "cleanup", "done"}
        /\ (upc = "done" => upsertReturn = "TCL_ERROR")
        /\ (upc = "done" /\ "resolve" \notin faults =>
               /\ resolveCalls = FirstUnknown
               /\ upsertResult =
                     UnknownColumnMsg(listObj[2 * FirstUnknown - 1], TableName))

\* C11 witness: the list {nick x id y} was refused at its first pair
C11_Witness ==
    /\ upc = "done"
    /\ optv = <<>>
    /\ listObj = <<"nick", "x", "id", "y">>
    /\ resolveCalls = 1
    /\ upsertReturn = "TCL_ERROR"
    /\ upsertResult = <<"unknown column '", "nick", "' in upsert for table '",
                        "ks.users", "'">>

\* C12: the caller's statement pointer is changed only by a call that
\* returns TCL_OK, after the resolver, the consistency setting and every
\* bind succeeded, and then to a statement with every parameter bound;
\* a call that returns anything else leaves it as it was
C12_HandOverOnlyOnSuccess ==
    /\ (statementPtr # CallerStatement =>
           /\ upc = "done"
           /\ upsertReturn = "TCL_OK"
           /\ faults = {}
           /\ statementPtr = upsertStatement
           /\ Len(statementPtr.binds) = statementPtr.nparams)
    /\ (upc = "done" /\ upsertReturn # "TCL_OK" => statementPtr = CallerStatement)

\* C12 witness: the second bind failed after the first was made, and the
\* function has returned with the caller's pointer as it was
C12_Witness ==
    /\ upc = "done"
    /\ "bind" \in faults
    /\ upsertStatement.live
    /\ Len(upsertStatement.binds) = 1
    /\ upsertReturn = "TCL_ERROR"
    /\ statementPtr = CallerStatement

\* C15: when the function has returned an error no statement it created
\* is still allocated and the map collection is freed
C15_NoStatementLeftOnError ==
    (upc = "done" /\ upsertReturn # "TCL_OK") =>
        /\ ~upsertStatement.live
        /\ collection = <<>>

\* the k-th pair of the list, in list order, whose column the table has
KnownPair(k) ==
    CHOOSE p \in KnownPairs : Cardinality({q \in KnownPairs : q <= p}) = k

\* C26: in a statement handed over, the k-th pair of a known column, in
\* list order, gives the k-th name of the column list and the value bound
\* at position k-1; the map of the unknown pairs, when there is one, is
\* bound at the last position; and each position from 0 to nFields-1 is
\* bound once
C26_PairsBoundInOrder ==
    UpsertSucceeded =>
        LET b == statementPtr.binds
            cols == ColumnList(statementPtr.query)
            n == statementPtr.nparams
        IN /\ \A p \in 0..(n - 1) :
                 Cardinality({j \in DOMAIN b : b[j].pos = p}) = 1
           /\ \A j \in DOMAIN b : b[j].pos \in 0..(n - 1)
           /\ \A k \in 1..Cardinality(KnownPairs) :
                 LET p == KnownPair(k)
                 IN /\ cols[k] = listObj[2 * p - 1]
                    /\ \E j \in DOMAIN b :
                          /\ b[j].pos = k - 1
                          /\ b[j].pair = p
                          /\ b[j].name = listObj[2 * p - 1]
                          /\ b[j].value = <<listObj[2 * p]>>
           /\ \A j \in MapBinds : b[j].pos = n - 1
           /\ (nUnknownToMap > 0 => MapBinds # {})

\* C26 witness: the list names an unknown column and then a known one; the
\* statement handed over binds the value of the second pair at position 0
\* and the map at position 1
C26_Witness ==
    /\ UpsertSucceeded
    /\ Len(listObj) = 4
    /\ listObj[1] = "nick"
    /\ listObj[3] = "id"
    /\ statementPtr.nparams = 2
    /\ \E j \in DOMAIN statementPtr.binds :
          /\ statementPtr.binds[j].pos = 0
          /\ statementPtr.binds[j].pair = 2
    /\ \E j \in MapBinds : statementPtr.binds[j].pos = 1

\* C27: both assertions bindField < nFields hold whenever they are
\* reached: before the value of a pair whose type is not Unknown is
\* bound, and before the map of the unknown pairs is bound, also after a
\* bind of a known column has failed; the function never stops at one
C27_BindFieldInRange ==
    /\ upc # "aborted"
    /\ (upc = "bind" /\ idx < Len(listObjv) =>
           (typeInfo[idx \div 2 + 1] # "unknown" => bindField < nFields))
    /\ (upc = "bindmap" => bindField < nFields)
    /\ (upc \in {"bind", "map", "bindmap", "finish"} =>
           \A j \in DOMAIN upsertStatement.binds :
               upsertStatement.binds[j].pos < nFields)

\* C27 witness: the bind of the known column failed, and the map of the
\* unknown pair was bound after it, at a position below nFields
C27_Witness ==
    /\ upc = "finish"
    /\ "bind" \in faults
    /\ nUnknownToMap = 1
    /\ bindField = 1
    /\ nFields = 2
    /\ \E j \in DOMAIN upsertStatement.binds :
          /\ upsertStatement.binds[j].kind = "collection"
          /\ upsertStatement.binds[j].pos = 1

\* ---------------------------------------------------- statement: properties
\* the options the function has seen make an invalid combination:
\* -prepared with -table or -array, or one of -array and -table without
\* the other
InvalidModes ==
    \/ preparedName # NULL /\ (tableName # NULL \/ arrayName # NULL)
    \/ arrayName # NULL /\ tableName = NULL
    \/ tableName # NULL /\ arrayName = NULL

\* C16: once the options seen make an invalid combination, in whatever
\* order they came, no binding routine is called (so no statement is
\* made), the -prepared branch is not entered and the function returns
\* TCL_ERROR
C16_InvalidModesRejected ==
    InvalidModes =>
        /\ bindCall = NoCall
        /\ spc \in {"modes", "query", "done"}
        /\ (spc = "done" => stmtReturn = "TCL_ERROR")

\* C16 witness: -table t -prepared p was refused for the combination
C16_Witness ==
    /\ spc = "done"
    /\ newObjv = <<"-table", "quorum", "-prepared", "quorum">>
    /\ tableName = "quorum"
    /\ preparedName = "quorum"
    /\ stmtReturn = "TCL_ERROR"
    /\ stmtResult = <<"-prepared cannot be used with -table / -array">>

\* C28: a binding routine is given a consistency level only when one was
\* parsed from a -consistency argument, and then that level; without
\* -consistency, and with the empty string for its value, it is given
\* NULL, so that it never reads the local before a level was stored there
C28_OverrideOnlyWhenParsed ==
    bindCall # NoCall =>
        /\ (bindCall.consistency # NULL =>
               /\ consistency # Uninitialized
               /\ bindCall.consistency = consistency)
        /\ (consistencyObj = NULL => bindCall.consistency = NULL)
        /\ (consistencyObj = "" => bindCall.consistency = NULL)

\* ------------------------------------------------------- schema: properties
\* C20: when one of the three functions has returned, the schema it
\* obtained has been freed once and so has the iterator it created
C20_SchemaReleasedOnce ==
    lpc = "done" =>
        /\ schema.gets = 1
        /\ schema.frees = 1
        /\ schemaIterator.frees = schemaIterator.news

\* the entries among the first k of es whose column_name is a string, in
\* the order of iteration
RECURSIVE ListedColumns(_, _)
ListedColumns(es, k) ==
    IF k = 0 THEN <<>>
    ELSE IF es[k].type = "varchar"
         THEN Append(ListedColumns(es, k - 1), es[k])
         ELSE ListedColumns(es, k - 1)

\* C21: while casstcl_list_columns runs without error and once it has
\* returned TCL_OK, its list holds, for the entries iterated so far whose
\* column_name is a string and in their order, one element (the name)
\* per entry without includeTypes and two adjacent elements (the name,
\* then the type) with includeTypes; entries whose column_name is no
\* string add nothing and do not fail the call
C21_ColumnsListedInOrder ==
    (/\ listFunc = "casstcl_list_columns"
     /\ schemaIterator.news = 1
     /\ listReturn = "TCL_OK") =>
        LET listed == ListedColumns(entries, itPos)
            n == Len(listed)
        IN /\ Len(listOut) = IF includeTypes THEN 2 * n ELSE n
           /\ \A k \in 1..n :
                IF includeTypes
                THEN /\ listOut[2 * k - 1] = listed[k].name
                     /\ listOut[2 * k] = ValidatorType[listed[k].validator]
                ELSE listOut[k] = listed[k].name
           /\ (lpc = "done" => itPos = Len(entries) /\ objPtr = listOut)

\* C21 witness: the columns of system.IndexInfo were listed with their
\* types; the entry without a column name was skipped
C21_Witness ==
    /\ lpc = "done"
    /\ listFunc = "casstcl_list_columns"
    /\ keyspaceArg = "system"
    /\ tableArg = "IndexInfo"
    /\ includeTypes
    /\ \E k \in 1..Len(entries) : entries[k].type # "varchar"
    /\ listReturn = "TCL_OK"
    /\ objPtr = <<"table_name", "text">>
====
